---- MODULE Spec2Model ----
(***************************************************************************)
(* Model of pelomon/BLECyclingGatt.h: the PROGMEM line comparator          *)
(* (string_comparator_callback) and the BLECyclingPower class              *)
(* (initialize, setup_cycling_power_feature,                               *)
(* setup_cycling_speed_cadence_feature, update, handle_sc_control_point,   *)
(* serial_status_text).                                                    *)
(*                                                                         *)
(* Four specifications share the variables:                                *)
(*   SpecComparator - one comparison session of the line comparator;       *)
(*   SpecMidSession - a session followed from any index up to the count;   *)
(*   SpecBringUp    - initialize() under every outcome of the transport;   *)
(*   Spec           - the life cycle of one BLECyclingPower object.        *)
(*                                                                         *)
(* Text sent to Serial and to the Logger is not part of the state.         *)
(***************************************************************************)
EXTENDS Integers, Sequences, FiniteSets, TLC

VARIABLES
    \* ProgmemComparatorState (lines 25-31)
    is_equal, line_number, total_lines, pgm_entry_table,
    \* history: the lines handed to string_comparator_callback so far
    supplied,
    \* BLECyclingPower members (lines 93-102)
    cp_service_id, cp_feature_id, cp_measurement_id, cp_sensor_location_id,
    csc_service_id, csc_feature_id, csc_measurement_id,
    csc_sensor_location_id, sc_control_point_id,
    \* build configuration: LOG_LEVEL >= LOG_LEVEL_DEBUG
    log_debug,
    \* life cycle position of the object: "constructed" or "ready"
    phase,
    \* the transport calls issued by initialize(), in order
    ble_log,
    \* whether update() has run, and for the last update() cycle: its arguments, the setChar calls it issued,
    \* the offsets the write position took, and its return value
    updated, snapshot, gatt_writes, base_trace, update_result

cmp_vars == <<is_equal, line_number, total_lines, pgm_entry_table, supplied>>
id_vars == <<cp_service_id, cp_feature_id, cp_measurement_id,
             cp_sensor_location_id, csc_service_id, csc_feature_id,
             csc_measurement_id, csc_sensor_location_id, sc_control_point_id>>
upd_vars == <<updated, snapshot, gatt_writes, base_trace, update_result>>
ble_vars == <<id_vars, log_debug, phase, ble_log, upd_vars>>
vars == <<cmp_vars, ble_vars>>

(***************************************************************************)
(* Fixed-width integers.  A uint32_t is kept as two 16-bit limbs           *)
(* <<hi, lo>> so that every intermediate value stays small.                *)
(***************************************************************************)
U8 == 256
U16 == 65536

U32(hi, lo) == <<hi, lo>>

\* (uint32_t) x * 128: the product is taken in 32 bits and wraps
Mul128_u32(x) ==
    LET p == x[2] * 128
    IN  U32((x[1] * 128 + (p \div U16)) % U16, p % U16)

\* (uint32_t) x / 125, schoolbook division over the two limbs
Div125_u32(x) ==
    LET r == x[1] % 125
    IN  U32(x[1] \div 125, (r * U16 + x[2]) \div 125)

\* (uint16_t) x: narrowing keeps the low 16 bits
Narrow_u16(x) == x[2]

\* little-endian object representation of an n-byte unsigned v < 2^16
BytesLE(v, n) == [i \in 1..n |-> IF i <= 2 THEN (v \div (IF i = 1 THEN 1 ELSE U8)) % U8 ELSE 0]

\* little-endian object representation of a uint32_t
BytesLE_u32(x) == BytesLE(x[2], 2) \o BytesLE(x[1], 2)

(***************************************************************************)
(* string_comparator_callback                                              *)
(***************************************************************************)
NUL == 0

\* a C string: its bytes followed by the terminator
CStr(s) == s \o <<NUL>>

\* strnlen_P(s, maxlen): bytes before the terminator, at most maxlen
RECURSIVE strnlen_from(_, _, _)
strnlen_from(s, i, maxlen) ==
    IF i >= maxlen THEN maxlen
    ELSE IF s[i + 1] = NUL THEN i
    ELSE strnlen_from(s, i + 1, maxlen)

strnlen_P(s, maxlen) == strnlen_from(s, 0, maxlen)

\* strncmp_P(a, b, n): difference of the first differing bytes among the
\* first n, the comparison stopping after a terminator
RECURSIVE strncmp_from(_, _, _, _)
strncmp_from(a, b, i, n) ==
    IF i >= n THEN 0
    ELSE IF a[i + 1] # b[i + 1] THEN a[i + 1] - b[i + 1]
    ELSE IF a[i + 1] = NUL THEN 0
    ELSE strncmp_from(a, b, i + 1, n)

strncmp_P(a, b, n) == strncmp_from(a, b, 0, n)

\* the reference table in PROGMEM and the buffers the line source may hand
\* over; it may pass any line_len up to the length of the buffer
\* "AAA", "BB", "C"
ReferenceTable == << <<65, 65, 65>>, <<66, 66>>, <<67>> >>

\* "AAA", "BB", "C", "AAB", "AAAA", "BA", "CC", ""
InputLines ==
    { <<65, 65, 65>>, <<66, 66>>, <<67>>,
      <<65, 65, 66>>, <<65, 65, 65, 65>>, <<66, 65>>,
      <<67, 67>>, << >> }

\* calls of one session the model follows
MaxCalls == 4

\* lines 39-63: the state the callback leaves, given buffer and length
ComparatorStep_NoLengthCheck(st, linebuf, line_len) ==
    IF st.line_number >= st.total_lines THEN st
    ELSE
        LET next_pgm_line == CStr(st.pgm_entry_table[st.line_number + 1])
            lines_matched == strncmp_P(linebuf, next_pgm_line, line_len)
        IN  [st EXCEPT !.is_equal = st.is_equal /\ (0 = lines_matched),
                       !.line_number = (st.line_number + 1) % U8]

ComparatorStep_ResetOnExtra(st, linebuf, line_len) ==
    IF st.line_number >= st.total_lines THEN [st EXCEPT !.is_equal = FALSE]
    ELSE
        LET next_pgm_line == CStr(st.pgm_entry_table[st.line_number + 1])
            next_pgm_line_len == strnlen_P(next_pgm_line, (line_len + 1) % U16)
            lines_matched == strncmp_P(linebuf, next_pgm_line, line_len)
        IN  [st EXCEPT !.is_equal = st.is_equal
                                    /\ (line_len = next_pgm_line_len)
                                    /\ (0 = lines_matched),
                       !.line_number = (st.line_number + 1) % U8]

ComparatorStep_StallOnMismatch(st, linebuf, line_len) ==
    IF st.line_number >= st.total_lines THEN st
    ELSE
        LET next_pgm_line == CStr(st.pgm_entry_table[st.line_number + 1])
            next_pgm_line_len == strnlen_P(next_pgm_line, (line_len + 1) % U16)
            lines_matched == strncmp_P(linebuf, next_pgm_line, line_len)
            matched == (line_len = next_pgm_line_len) /\ (0 = lines_matched)
        IN  [st EXCEPT !.is_equal = st.is_equal /\ matched,
                       !.line_number = IF st.is_equal /\ matched
                                       THEN (st.line_number + 1) % U8
                                       ELSE st.line_number]

ComparatorStep_AlwaysAdvance(st, linebuf, line_len) ==
    IF st.line_number >= st.total_lines
    THEN [st EXCEPT !.line_number = (st.line_number + 1) % U8]
    ELSE
        LET next_pgm_line == CStr(st.pgm_entry_table[st.line_number + 1])
            next_pgm_line_len == strnlen_P(next_pgm_line, (line_len + 1) % U16)
            lines_matched == strncmp_P(linebuf, next_pgm_line, line_len)
        IN  [st EXCEPT !.is_equal = st.is_equal
                                    /\ (line_len = next_pgm_line_len)
                                    /\ (0 = lines_matched),
                       !.line_number = (st.line_number + 1) % U8]

ComparatorStep(st, linebuf, line_len) ==
    IF st.line_number >= st.total_lines THEN st
    ELSE
        LET next_pgm_line == CStr(st.pgm_entry_table[st.line_number + 1])
            next_pgm_line_len == strnlen_P(next_pgm_line, (line_len + 1) % U16)
            lines_matched == strncmp_P(linebuf, next_pgm_line, line_len)
        IN  [st EXCEPT !.is_equal = st.is_equal
                                    /\ (line_len = next_pgm_line_len)
                                    /\ (0 = lines_matched),
                       !.line_number = (st.line_number + 1) % U8]

ComparatorState ==
    [is_equal |-> is_equal, line_number |-> line_number,
     total_lines |-> total_lines, pgm_entry_table |-> pgm_entry_table]

string_comparator_callback_with(lines) ==
    /\ Len(supplied) < MaxCalls
    /\ \E buf \in lines : \E line_len \in 0..Len(buf) :
          LET st == ComparatorStep(ComparatorState, CStr(buf), line_len)
          IN  /\ is_equal' = st.is_equal
              /\ line_number' = st.line_number
              /\ total_lines' = st.total_lines
              /\ pgm_entry_table' = st.pgm_entry_table
              /\ supplied' = Append(supplied, SubSeq(buf, 1, line_len))
    /\ UNCHANGED ble_vars

string_comparator_callback == string_comparator_callback_with(InputLines)

\* a table of as many lines as total_lines can count, each "C"
LongTable == [i \in 1..(U8 - 1) |-> <<67>>]

\* "C", "CC", ""
MidSessionLines == { <<67>>, <<67, 67>>, << >> }

\* the callback in a session that is followed from any line_number up to
\* total_lines
mid_session_callback == string_comparator_callback_with(MidSessionLines)

(***************************************************************************)
(* The transport (Adafruit_BLE / Adafruit_BLEGatt) as seen by the class:   *)
(* every call is one entry of ble_log.                                     *)
(***************************************************************************)
PROP_READ == "READ"
PROP_WRITE == "WRITE"
PROP_NOTIFY == "NOTIFY"
PROP_INDICATE == "INDICATE"

Call(op, name) ==
    [op |-> op, name |-> name, props |-> {}, min_len |-> 0, max_len |-> 0,
     handle |-> 0, value |-> {}, len |-> 0]

AddService(uuid, ret) ==
    [Call("addService", uuid) EXCEPT !.handle = ret]

AddCharacteristic(uuid, props, min_len, max_len, ret) ==
    [Call("addCharacteristic", uuid) EXCEPT !.props = props,
        !.min_len = min_len, !.max_len = max_len, !.handle = ret]

\* setChar of a static value: the OR of the named constants, len bytes wide
SetCharStatic(name, id, value, len) ==
    [Call("setChar", name) EXCEPT !.handle = id, !.value = value, !.len = len]

\* The nine declarations, in source order, and what the transport answers
\* to the k-th of them: 0 when it fails, else an identifier of its own.
NumDeclarations == 9

DeclarationOutcomes == [1..NumDeclarations -> BOOLEAN]

\* declarations of one bring-up the transport may refuse, in the life cycle
\* specification
MaxFailedDeclarations == 1

BoundedOutcomes ==
    {ok \in DeclarationOutcomes :
        Cardinality({k \in 1..NumDeclarations : ~ok[k]}) <= MaxFailedDeclarations}

TransportHandle(k, ok) == IF ok[k] THEN k ELSE 0

\* lines 167-203
setup_cycling_power_feature_AbortOnFailure(ok) ==
    LET s == TransportHandle(1, ok)
        f == IF s = 0 THEN 0 ELSE TransportHandle(2, ok)
        m == IF f = 0 THEN 0 ELSE TransportHandle(3, ok)
        l == IF m = 0 THEN 0 ELSE TransportHandle(4, ok)
        all == << AddService("CYCLING_POWER_SERVICE_UUID", s),
                  AddCharacteristic("CYCLING_POWER_FEATURE_CHAR_UUID",
                                    {PROP_READ}, 4, 4, f),
                  AddCharacteristic("CYCLING_POWER_MEASUREMENT_CHAR_UUID",
                                    {PROP_READ, PROP_NOTIFY}, 4, 8, m),
                  AddCharacteristic("SENSOR_LOCATION_CHAR_UUID",
                                    {PROP_READ}, 1, 1, l) >>
        n == IF s = 0 THEN 1 ELSE IF f = 0 THEN 2 ELSE IF m = 0 THEN 3 ELSE 4
    IN  [cp_service_id |-> s, cp_feature_id |-> f, cp_measurement_id |-> m,
         cp_sensor_location_id |-> l, calls |-> SubSeq(all, 1, n)]

setup_cycling_power_feature_ServiceLast(ok) ==
    LET s == TransportHandle(1, ok)
        f == TransportHandle(2, ok)
        m == TransportHandle(3, ok)
        l == TransportHandle(4, ok)
    IN  [cp_service_id |-> s, cp_feature_id |-> f, cp_measurement_id |-> m,
         cp_sensor_location_id |-> l,
         calls |-> << AddCharacteristic("CYCLING_POWER_FEATURE_CHAR_UUID",
                                        {PROP_READ}, 4, 4, f),
                      AddCharacteristic("CYCLING_POWER_MEASUREMENT_CHAR_UUID",
                                        {PROP_READ, PROP_NOTIFY}, 4, 8, m),
                      AddCharacteristic("SENSOR_LOCATION_CHAR_UUID",
                                        {PROP_READ}, 1, 1, l),
                      AddService("CYCLING_POWER_SERVICE_UUID", s) >>]

setup_cycling_power_feature(ok) ==
    LET s == TransportHandle(1, ok)
        f == TransportHandle(2, ok)
        m == TransportHandle(3, ok)
        l == TransportHandle(4, ok)
    IN  [cp_service_id |-> s, cp_feature_id |-> f, cp_measurement_id |-> m,
         cp_sensor_location_id |-> l,
         calls |-> << AddService("CYCLING_POWER_SERVICE_UUID", s),
                      AddCharacteristic("CYCLING_POWER_FEATURE_CHAR_UUID",
                                        {PROP_READ}, 4, 4, f),
                      AddCharacteristic("CYCLING_POWER_MEASUREMENT_CHAR_UUID",
                                        {PROP_READ, PROP_NOTIFY}, 4, 8, m),
                      AddCharacteristic("SENSOR_LOCATION_CHAR_UUID",
                                        {PROP_READ}, 1, 1, l) >>]

\* lines 205-243
setup_cycling_speed_cadence_feature(ok) ==
    LET s == TransportHandle(5, ok)
        f == TransportHandle(6, ok)
        m == TransportHandle(7, ok)
        l == TransportHandle(8, ok)
        c == TransportHandle(9, ok)
    IN  [csc_service_id |-> s, csc_feature_id |-> f, csc_measurement_id |-> m,
         csc_sensor_location_id |-> l, sc_control_point_id |-> c,
         calls |-> << AddService("CYCLING_SPEED_CADENCE_SERVICE_UUID", s),
                      AddCharacteristic("CSC_FEATURE_CHAR_UUID",
                                        {PROP_READ}, 2, 2, f),
                      AddCharacteristic("CSC_MEASUREMENT_CHAR_UUID",
                                        {PROP_NOTIFY}, 11, 11, m),
                      AddCharacteristic("SENSOR_LOCATION_CHAR_UUID",
                                        {PROP_READ}, 1, 1, l),
                      AddCharacteristic("SC_CONTROL_POINT_CHAR_UUID",
                                        {PROP_WRITE, PROP_INDICATE}, 1, 5, c) >>]

\* lines 108-164: the transport calls of initialize(), in order
InitializeCalls_AdvertiseFirst(cp, csc, dbg) ==
    << Call("reset", ""),
       Call("echo", "false"),
       Call("atcommand", "AT+GATTCLEAR"),
       Call("sendCommandCheckOK", "AT+GAPDEVNAME=PeloMon"),
       Call("sendCommandCheckOK", "AT+GAPSETADVDATA") >>
    \o cp.calls
    \o csc.calls
    \o << Call("reset", "") >>
    \o (IF dbg THEN << Call("sendCommandCheckOK", "AT+GATTLIST") >> ELSE << >>)
    \o << SetCharStatic("cp_sensor_location", cp.cp_sensor_location_id,
                        {"SENSOR_LOCATION_LEFT_CRANK"}, 1),
          SetCharStatic("csc_sensor_location", csc.csc_sensor_location_id,
                        {"SENSOR_LOCATION_LEFT_CRANK"}, 1),
          SetCharStatic("cp_feature", cp.cp_feature_id,
                        {"CPF_CRANK_REVOLUTION_DATA_SUPPORTED",
                         "CPF_WHEEL_REVOLUTION_DATA_SUPPORTED",
                         "CPF_ACCUMULATED_ENERGY_SUPPORTED"}, 4),
          SetCharStatic("csc_feature", csc.csc_feature_id,
                        {"CSCF_CRANK_REVOLUTION_DATA_SUPPORTED",
                         "CSCF_WHEEL_REVOLUTION_DATA_SUPPORTED"}, 2),
          SetCharStatic("sc_control_point", csc.sc_control_point_id, {}, 1) >>

InitializeCalls_SkipInvalidHandles(cp, csc, dbg) ==
    << Call("reset", ""),
       Call("echo", "false"),
       Call("atcommand", "AT+GATTCLEAR"),
       Call("sendCommandCheckOK", "AT+GAPDEVNAME=PeloMon") >>
    \o cp.calls
    \o csc.calls
    \o << Call("sendCommandCheckOK", "AT+GAPSETADVDATA"),
          Call("reset", "") >>
    \o (IF dbg THEN << Call("sendCommandCheckOK", "AT+GATTLIST") >> ELSE << >>)
    \o SelectSeq(
        << SetCharStatic("cp_sensor_location", cp.cp_sensor_location_id,
                         {"SENSOR_LOCATION_LEFT_CRANK"}, 1),
           SetCharStatic("csc_sensor_location", csc.csc_sensor_location_id,
                         {"SENSOR_LOCATION_LEFT_CRANK"}, 1),
           SetCharStatic("cp_feature", cp.cp_feature_id,
                         {"CPF_CRANK_REVOLUTION_DATA_SUPPORTED",
                          "CPF_WHEEL_REVOLUTION_DATA_SUPPORTED",
                          "CPF_ACCUMULATED_ENERGY_SUPPORTED"}, 4),
           SetCharStatic("csc_feature", csc.csc_feature_id,
                         {"CSCF_CRANK_REVOLUTION_DATA_SUPPORTED",
                          "CSCF_WHEEL_REVOLUTION_DATA_SUPPORTED"}, 2),
           SetCharStatic("sc_control_point", csc.sc_control_point_id, {}, 1) >>,
        LAMBDA c : c.handle # 0)

InitializeCalls(cp, csc, dbg) ==
    << Call("reset", ""),
       Call("echo", "false"),
       Call("atcommand", "AT+GATTCLEAR"),
       Call("sendCommandCheckOK", "AT+GAPDEVNAME=PeloMon") >>
    \o cp.calls
    \o csc.calls
    \o << Call("sendCommandCheckOK", "AT+GAPSETADVDATA"),
          Call("reset", "") >>
    \o (IF dbg THEN << Call("sendCommandCheckOK", "AT+GATTLIST") >> ELSE << >>)
    \o << SetCharStatic("cp_sensor_location", cp.cp_sensor_location_id,
                        {"SENSOR_LOCATION_LEFT_CRANK"}, 1),
          SetCharStatic("csc_sensor_location", csc.csc_sensor_location_id,
                        {"SENSOR_LOCATION_LEFT_CRANK"}, 1),
          SetCharStatic("cp_feature", cp.cp_feature_id,
                        {"CPF_CRANK_REVOLUTION_DATA_SUPPORTED",
                         "CPF_WHEEL_REVOLUTION_DATA_SUPPORTED",
                         "CPF_ACCUMULATED_ENERGY_SUPPORTED"}, 4),
          SetCharStatic("csc_feature", csc.csc_feature_id,
                        {"CSCF_CRANK_REVOLUTION_DATA_SUPPORTED",
                         "CSCF_WHEEL_REVOLUTION_DATA_SUPPORTED"}, 2),
          SetCharStatic("sc_control_point", csc.sc_control_point_id, {}, 1) >>

initialize_with(outcomes) ==
    /\ phase = "constructed"
    /\ \E ok \in outcomes :
          LET cp == setup_cycling_power_feature(ok)
              csc == setup_cycling_speed_cadence_feature(ok)
          IN  /\ cp_service_id' = cp.cp_service_id
              /\ cp_feature_id' = cp.cp_feature_id
              /\ cp_measurement_id' = cp.cp_measurement_id
              /\ cp_sensor_location_id' = cp.cp_sensor_location_id
              /\ csc_service_id' = csc.csc_service_id
              /\ csc_feature_id' = csc.csc_feature_id
              /\ csc_measurement_id' = csc.csc_measurement_id
              /\ csc_sensor_location_id' = csc.csc_sensor_location_id
              /\ sc_control_point_id' = csc.sc_control_point_id
              /\ ble_log' = InitializeCalls(cp, csc, log_debug)
    /\ phase' = "ready"
    /\ UNCHANGED <<cmp_vars, log_debug, upd_vars>>

\* initialize() in the life cycle, and bring-up alone under every outcome
initialize == initialize_with(BoundedOutcomes)

bring_up == initialize_with(DeclarationOutcomes)

(***************************************************************************)
(* update(): the measurement encoder                                       *)
(***************************************************************************)
\* flag constants of ble_constants.h
CPM_ACCUMULATED_ENERGY_PRESENT == 32
CSCM_WHEEL_REV_DATA_PRESENT == 1
CSCM_CRANK_REV_DATA_PRESENT == 2

\* a | b on unsigned values
RECURSIVE BitOr(_, _)
BitOr(a, b) ==
    IF a = 0 THEN b
    ELSE IF b = 0 THEN a
    ELSE (IF (a % 2 = 1) \/ (b % 2 = 1) THEN 1 ELSE 0)
         + 2 * BitOr(a \div 2, b \div 2)

\* line 248: uint8_t data[11] = {0}
BufferSize == 11

ZeroBuffer == [i \in 1..BufferSize |-> 0]

\* lines 20-22: memcpy(buffer+base, &field, sizeof(field)); base += sizeof
\* b is [data, base, trace]; trace collects the values base takes
APPEND_BUFFER(b, field) ==
    LET n == Len(field)
        nb == (b.base + n) % U8
    IN  [data |-> SubSeq(b.data, 1, b.base) \o field
                  \o SubSeq(b.data, b.base + n + 1, BufferSize),
         base |-> nb,
         trace |-> Append(b.trace, nb)]

\* line 267 / 289: base = 0
ResetBase(b) == [b EXCEPT !.base = 0, !.trace = Append(b.trace, 0)]

\* line 274
ClampPower_None(power_watts) == power_watts

ClampPower(power_watts) ==
    IF power_watts > 32767 THEN 32767 ELSE power_watts

\* lines 299-300 and 306-307: (uint16_t) ((ms * 128) / 125)
EventTime1024(ms) == Narrow_u16(Div125_u32(Mul128_u32(ms)))

\* lines 267-278: the buffer after the Power measurement was packed
PackPower_WithCrank(b, s) ==
    LET b0 == ResetBase(b)
        b1 == APPEND_BUFFER(b0, BytesLE(BitOr(CPM_ACCUMULATED_ENERGY_PRESENT, 16), 2))
        b2 == APPEND_BUFFER(b1, BytesLE(ClampPower(s.power_watts), 2))
        b3 == APPEND_BUFFER(b2, BytesLE(s.total_energy_kj, 2))
        b4 == APPEND_BUFFER(b3, BytesLE(s.crank_revs, 2))
    IN  b4

PackPower_WithWheelAndCrank(b, s) ==
    LET b0 == ResetBase(b)
        b1 == APPEND_BUFFER(b0, BytesLE(CPM_ACCUMULATED_ENERGY_PRESENT, 2))
        b2 == APPEND_BUFFER(b1, BytesLE(ClampPower(s.power_watts), 2))
        b3 == APPEND_BUFFER(b2, BytesLE_u32(s.wheel_revs))
        b4 == APPEND_BUFFER(b3, BytesLE(s.crank_revs, 2))
        b5 == APPEND_BUFFER(b4, BytesLE(s.total_energy_kj, 2))
    IN  b5

PackPower(b, s) ==
    LET b0 == ResetBase(b)
        b1 == APPEND_BUFFER(b0, BytesLE(CPM_ACCUMULATED_ENERGY_PRESENT, 2))
        b2 == APPEND_BUFFER(b1, BytesLE(ClampPower(s.power_watts), 2))
        b3 == APPEND_BUFFER(b2, BytesLE(s.total_energy_kj, 2))
    IN  b3

\* lines 289-308: the buffer after the Speed/Cadence measurement was packed
PackCsc_NoRewind(b, s) ==
    LET b1 == APPEND_BUFFER(b, BytesLE(BitOr(CSCM_WHEEL_REV_DATA_PRESENT,
                                             CSCM_CRANK_REV_DATA_PRESENT), 1))
        b2 == APPEND_BUFFER(b1, BytesLE_u32(s.wheel_revs))
        b3 == APPEND_BUFFER(b2, BytesLE(EventTime1024(s.last_wheel_rev_timestamp_ms), 2))
        b4 == APPEND_BUFFER(b3, BytesLE(s.crank_revs, 2))
        b5 == APPEND_BUFFER(b4, BytesLE(EventTime1024(s.last_crank_rev_timestamp_ms), 2))
    IN  [b5 EXCEPT !.base = BufferSize]

PackCsc(b, s) ==
    LET b0 == ResetBase(b)
        b1 == APPEND_BUFFER(b0, BytesLE(BitOr(CSCM_WHEEL_REV_DATA_PRESENT,
                                              CSCM_CRANK_REV_DATA_PRESENT), 1))
        b2 == APPEND_BUFFER(b1, BytesLE_u32(s.wheel_revs))
        b3 == APPEND_BUFFER(b2, BytesLE(EventTime1024(s.last_wheel_rev_timestamp_ms), 2))
        b4 == APPEND_BUFFER(b3, BytesLE(s.crank_revs, 2))
        b5 == APPEND_BUFFER(b4, BytesLE(EventTime1024(s.last_crank_rev_timestamp_ms), 2))
    IN  b5

\* gatt_.setChar(id, data, base): the transport is handed base bytes of data
\* and answers ok
SetChar(name, id, b, ok) ==
    [name |-> name, handle |-> id, data |-> SubSeq(b.data, 1, b.base),
     len |-> b.base, ok |-> ok]

\* lines 246-315: the writes issued, the offsets taken and the return value
\* of one cycle; cpm_ok and csc_ok are what setChar answers.  The call of
\* handle_sc_control_point() at line 313 reads and writes nothing.
UpdateCycle_SkipCscOnFailure(s, cp_id, csc_id, cpm_ok, csc_ok) ==
    LET start == [data |-> ZeroBuffer, base |-> 0, trace |-> << >>]
        cp == PackPower(start, s)
        csc == PackCsc(cp, s)
    IN  IF cpm_ok
        THEN [writes |-> << SetChar("cp_measurement", cp_id, cp, cpm_ok),
                           SetChar("csc_measurement", csc_id, csc, csc_ok) >>,
              trace |-> csc.trace,
              result |-> cpm_ok /\ csc_ok]
        ELSE [writes |-> << SetChar("cp_measurement", cp_id, cp, cpm_ok) >>,
              trace |-> cp.trace,
              result |-> FALSE]

UpdateCycle(s, cp_id, csc_id, cpm_ok, csc_ok) ==
    LET start == [data |-> ZeroBuffer, base |-> 0, trace |-> << >>]
        cp == PackPower(start, s)
        cpm_success == cpm_ok
        csc == PackCsc(cp, s)
        csc_success == csc_ok
    IN  [writes |-> << SetChar("cp_measurement", cp_id, cp, cpm_ok),
                       SetChar("csc_measurement", csc_id, csc, csc_ok) >>,
         trace |-> csc.trace,
         result |-> cpm_success /\ csc_success]

\* the sensor snapshots the driving loop may pass: the scenario
\* {crank_revs=10, last_crank_ms=1000, wheel_revs=500, last_wheel_ms=2000,
\*  power=300, energy_kj=50} and every snapshot that differs from it in one
\* argument
Timestamps ==
    { U32(0, 0), U32(0, 124), U32(0, 1000), U32(0, 2000), U32(0, 64000),
      U32(511, 65535), U32(512, 0), U32(40000, 7), U32(65535, 65535) }

WheelRevs == { U32(0, 0), U32(0, 500), U32(1, 2), U32(65535, 65535) }

CrankRevs == { 0, 10, 258, 65535 }

PowerWatts == { 0, 300, 32767, 32768, 40000, 65535 }

EnergyKj == { 0, 50, 32768, 65535 }

Scenario ==
    [crank_revs |-> 10, last_crank_rev_timestamp_ms |-> U32(0, 1000),
     wheel_revs |-> U32(0, 500), last_wheel_rev_timestamp_ms |-> U32(0, 2000),
     power_watts |-> 300, total_energy_kj |-> 50]

Snapshots ==
    {[Scenario EXCEPT !.crank_revs = v] : v \in CrankRevs}
    \cup {[Scenario EXCEPT !.last_crank_rev_timestamp_ms = v] : v \in Timestamps}
    \cup {[Scenario EXCEPT !.wheel_revs = v] : v \in WheelRevs}
    \cup {[Scenario EXCEPT !.last_wheel_rev_timestamp_ms = v] : v \in Timestamps}
    \cup {[Scenario EXCEPT !.power_watts = v] : v \in PowerWatts}
    \cup {[Scenario EXCEPT !.total_energy_kj = v] : v \in EnergyKj}
    \cup {[crank_revs |-> 65535,
           last_crank_rev_timestamp_ms |-> U32(65535, 65535),
           wheel_revs |-> U32(65535, 65535),
           last_wheel_rev_timestamp_ms |-> U32(65535, 65535),
           power_watts |-> 65535, total_energy_kj |-> 65535]}

\* lines 317-326: nothing is read or written
handle_sc_control_point ==
    /\ phase = "ready"
    /\ UNCHANGED vars

update_InvalidatesHandleOnFailure ==
    /\ phase = "ready"
    /\ \E s \in Snapshots : \E cpm_ok \in BOOLEAN : \E csc_ok \in BOOLEAN :
          \E r \in {UpdateCycle(s, cp_measurement_id, csc_measurement_id,
                                cpm_ok, csc_ok)} :
              /\ updated' = TRUE
              /\ snapshot' = s
              /\ gatt_writes' = r.writes
              /\ base_trace' = r.trace
              /\ update_result' = r.result
              /\ cp_measurement_id' = IF cpm_ok THEN cp_measurement_id ELSE 0
    /\ UNCHANGED <<cmp_vars, cp_service_id, cp_feature_id,
                   cp_sensor_location_id, csc_service_id, csc_feature_id,
                   csc_measurement_id, csc_sensor_location_id,
                   sc_control_point_id, log_debug, phase, ble_log>>

update ==
    /\ phase = "ready"
    /\ \E s \in Snapshots : \E cpm_ok \in BOOLEAN : \E csc_ok \in BOOLEAN :
          \E r \in {UpdateCycle(s, cp_measurement_id, csc_measurement_id,
                                cpm_ok, csc_ok)} :
              /\ updated' = TRUE
              /\ snapshot' = s
              /\ gatt_writes' = r.writes
              /\ base_trace' = r.trace
              /\ update_result' = r.result
    /\ UNCHANGED <<cmp_vars, id_vars, log_debug, phase, ble_log>>

\* lines 328-341: prints the retained handles, const
serial_status_text ==
    /\ phase = "ready"
    /\ UNCHANGED vars

(***************************************************************************)
(* Specifications                                                          *)
(***************************************************************************)
\* The members have no initializer: until initialize() assigns them their
\* value is indeterminate, and no operation of the model reads them before.
Indeterminate == 0 - 1

InitBle ==
    /\ cp_service_id = Indeterminate
    /\ cp_feature_id = Indeterminate
    /\ cp_measurement_id = Indeterminate
    /\ cp_sensor_location_id = Indeterminate
    /\ csc_service_id = Indeterminate
    /\ csc_feature_id = Indeterminate
    /\ csc_measurement_id = Indeterminate
    /\ csc_sensor_location_id = Indeterminate
    /\ sc_control_point_id = Indeterminate
    /\ phase = "constructed"
    /\ ble_log = << >>
    /\ updated = FALSE
    /\ snapshot = Scenario
    /\ gatt_writes = << >>
    /\ base_trace = << >>
    /\ update_result = TRUE

\* {is_equal = true, line_number = 0, total_lines = N} over the table
InitComparator ==
    /\ is_equal = TRUE
    /\ line_number = 0
    /\ total_lines = Len(ReferenceTable)
    /\ pgm_entry_table = ReferenceTable
    /\ supplied = << >>

Init ==
    /\ InitBle
    /\ log_debug \in BOOLEAN
    /\ InitComparator

Next ==
    \/ initialize
    \/ update
    \/ handle_sc_control_point
    \/ serial_status_text

Spec == Init /\ [][Next]_vars

InitSession ==
    /\ InitBle
    /\ log_debug = FALSE
    /\ InitComparator

NextComparator == string_comparator_callback

NextBringUp ==
    \/ bring_up
    \/ serial_status_text

SpecBringUp == Init /\ [][NextBringUp]_vars

SpecComparator == InitSession /\ [][NextComparator]_vars

\* a session taken up with line_number <= total_lines: at either end of the
\* table, with either verdict so far
StartIndexes(table) ==
    {n \in 0..Len(table) : n <= 1 \/ n >= Len(table) - 2}

InitMidSession ==
    /\ InitBle
    /\ log_debug = FALSE
    /\ pgm_entry_table \in {ReferenceTable, LongTable}
    /\ total_lines = Len(pgm_entry_table)
    /\ line_number \in StartIndexes(pgm_entry_table)
    /\ is_equal \in BOOLEAN
    /\ supplied = << >>

NextMidSession == mid_session_callback

SpecMidSession == InitMidSession /\ [][NextMidSession]_vars

(***************************************************************************)
(* Reading the payloads back, as a receiver does                           *)
(***************************************************************************)
U16At(d, i) == d[i] + U8 * d[i + 1]

U32At(d, i) == U32(U16At(d, i + 2), U16At(d, i))

Min(a, b) == IF a < b THEN a ELSE b

\* floor(t * 128 / 125) mod 65536 with the product taken over the integers:
\* for t = 125 q + r it is 128 q + floor(128 r / 125)
Mod125_u32(x) == ((x[1] % 125) * U16 + x[2]) % 125

ExactEventTime(t) ==
    (128 * Div125_u32(t)[2] + (128 * Mod125_u32(t)) \div 125) % U16

CpWrites == SelectSeq(gatt_writes, LAMBDA w : w.name = "cp_measurement")

CscWrites == SelectSeq(gatt_writes, LAMBDA w : w.name = "csc_measurement")

(***************************************************************************)
(* Properties                                                              *)
(***************************************************************************)

\* C1: for every millisecond timestamp t passed to update(), the 16-bit
\* event-time fields of the Speed/Cadence payload equal
\* floor(t * 128 / 125) mod 65536, the product t * 128 not overflowing.
C1_EventTimeIsExactConversion ==
    updated =>
        \A i \in 1..Len(CscWrites) :
            /\ U16At(CscWrites[i].data, 6)
                  = ExactEventTime(snapshot.last_wheel_rev_timestamp_ms)
            /\ U16At(CscWrites[i].data, 10)
                  = ExactEventTime(snapshot.last_crank_rev_timestamp_ms)

\* C2: for every power_watts in [0, 65535] the power field of the Power
\* payload, read as unsigned, is min(power_watts, 32767); its sign bit is
\* never set.
C2_PowerFieldIsClamped ==
    updated =>
        /\ Len(CpWrites) >= 1
        /\ \A i \in 1..Len(CpWrites) :
              /\ U16At(CpWrites[i].data, 3) = Min(snapshot.power_watts, 32767)
              /\ U16At(CpWrites[i].data, 3) < 32768

C2_Witness ==
    /\ updated
    /\ snapshot.power_watts = 40000
    /\ Len(CpWrites) = 1
    /\ U16At(CpWrites[1].data, 3) = 32767

\* C3: from {is_equal = true, line_number = 0, total_lines = N}, after n
\* calls with lines L_0..L_{n-1}, is_equal holds exactly when every L_i with
\* i < min(n, N) has the length and the bytes of reference line i.
C3_VerdictIsConjunctionOfMatches ==
    is_equal <=>
        \A i \in 1..Min(Len(supplied), Len(ReferenceTable)) :
            /\ Len(supplied[i]) = Len(ReferenceTable[i])
            /\ \A j \in 1..Len(supplied[i]) :
                  supplied[i][j] = ReferenceTable[i][j]

\* two matching lines followed by a line that is a proper prefix of the
\* third reference line ("" against "C"): the verdict is false
C3_Witness ==
    /\ Len(supplied) = 3
    /\ supplied[1] = ReferenceTable[1]
    /\ supplied[2] = ReferenceTable[2]
    /\ supplied[3] = << >>
    /\ ~is_equal

\* C4: when the transport answers exactly one addService/addCharacteristic
\* call with the invalid handle 0, the other eight declarations are still
\* issued, every member keeps the handle the transport returned for its
\* declaration, and initialize() runs to its end: the advertising command,
\* the second reset and the five initial-value writes are issued.
Declarations ==
    SelectSeq(ble_log,
              LAMBDA c : c.op = "addService" \/ c.op = "addCharacteristic")

RetainedHandles ==
    << cp_service_id, cp_feature_id, cp_measurement_id, cp_sensor_location_id,
       csc_service_id, csc_feature_id, csc_measurement_id,
       csc_sensor_location_id, sc_control_point_id >>

FailedDeclarations == {i \in 1..Len(Declarations) : Declarations[i].handle = 0}

CountOps(op, name) ==
    Cardinality({i \in 1..Len(ble_log) :
                    ble_log[i].op = op /\ ble_log[i].name = name})

C4_OneFailureDoesNotAbort ==
    (phase = "ready" /\ Cardinality(FailedDeclarations) = 1) =>
        /\ Len(Declarations) = NumDeclarations
        /\ \A i \in 1..NumDeclarations :
              RetainedHandles[i] = Declarations[i].handle
        /\ CountOps("sendCommandCheckOK", "AT+GAPSETADVDATA") = 1
        /\ CountOps("reset", "") = 2
        /\ Cardinality({i \in 1..Len(ble_log) : ble_log[i].op = "setChar"}) = 5
        /\ ble_log[Len(ble_log)].op = "setChar"

\* the Power Measurement declaration alone fails
C4_Witness ==
    /\ phase = "ready"
    /\ cp_measurement_id = 0
    /\ FailedDeclarations = {3}
    /\ Len(Declarations) = 9
    /\ sc_control_point_id = 9

\* C5: every update() cycle issues exactly one write of the Power
\* measurement and then exactly one write of the Speed/Cadence measurement,
\* whatever the first write answered, and returns true exactly when both
\* writes reported success.
C5_BothWritesAlwaysIssued ==
    updated =>
        /\ Len(gatt_writes) = 2
        /\ gatt_writes[1].name = "cp_measurement"
        /\ gatt_writes[1].handle = cp_measurement_id
        /\ gatt_writes[2].name = "csc_measurement"
        /\ gatt_writes[2].handle = csc_measurement_id
        /\ update_result = (gatt_writes[1].ok /\ gatt_writes[2].ok)

\* the Power write failed, the Speed/Cadence write was issued and succeeded
C5_Witness ==
    /\ updated
    /\ Len(gatt_writes) = 2
    /\ ~gatt_writes[1].ok
    /\ gatt_writes[2].name = "csc_measurement"
    /\ gatt_writes[2].ok
    /\ ~update_result

\* C6: the Speed/Cadence payload is 11 bytes: flags (1), wheel revolutions
\* (4), wheel event time (2), crank revolutions (2), crank event time (2);
\* read back it gives flags with exactly the wheel and crank bits, the
\* supplied wheel_revs and crank_revs, and the converted event times; these
\* fields cover all 11 bytes, so none depends on power_watts or
\* total_energy_kj.
C6_CscPayloadRoundTrip ==
    updated =>
        /\ Len(CscWrites) >= 1
        /\ \A i \in 1..Len(CscWrites) :
              LET d == CscWrites[i].data
              IN  /\ CscWrites[i].len = 11
                  /\ Len(d) = 1 + 4 + 2 + 2 + 2
                  /\ d[1] = BitOr(CSCM_WHEEL_REV_DATA_PRESENT,
                                  CSCM_CRANK_REV_DATA_PRESENT)
                  /\ d[1] = CSCM_WHEEL_REV_DATA_PRESENT
                            + CSCM_CRANK_REV_DATA_PRESENT
                  /\ U32At(d, 2) = snapshot.wheel_revs
                  /\ U16At(d, 6)
                        = EventTime1024(snapshot.last_wheel_rev_timestamp_ms)
                  /\ U16At(d, 8) = snapshot.crank_revs
                  /\ U16At(d, 10)
                        = EventTime1024(snapshot.last_crank_rev_timestamp_ms)

\* the scenario with power 65535: the payload is that of the scenario
C6_Witness ==
    /\ updated
    /\ snapshot = [Scenario EXCEPT !.power_watts = 65535]
    /\ Len(CscWrites) = 1
    /\ CscWrites[1].data = <<3, 244, 1, 0, 0, 0, 8, 10, 0, 0, 4>>

\* C7: the Power payload is 6 bytes: flags (2), power (2), energy (2); read
\* back it gives flags with the accumulated-energy-present bit and no other
\* bit, the clamped power, and total_energy_kj as supplied; it holds no
\* wheel or crank field.
IsSingleBit(v) == \E k \in 0..15 : v = 2 ^ k

C7_PowerPayloadRoundTrip ==
    updated =>
        /\ Len(CpWrites) >= 1
        /\ \A i \in 1..Len(CpWrites) :
              LET d == CpWrites[i].data
              IN  /\ CpWrites[i].len = 6
                  /\ Len(d) = 2 + 2 + 2
                  /\ U16At(d, 1) = CPM_ACCUMULATED_ENERGY_PRESENT
                  /\ IsSingleBit(U16At(d, 1))
                  /\ U16At(d, 3) = ClampPower(snapshot.power_watts)
                  /\ U16At(d, 5) = snapshot.total_energy_kj

\* energy 65535 goes through unclamped
C7_Witness ==
    /\ updated
    /\ snapshot = [Scenario EXCEPT !.total_energy_kj = 65535]
    /\ Len(CpWrites) = 1
    /\ CpWrites[1].data = <<32, 0, 44, 1, 255, 255>>

\* C8: a call made with line_number >= total_lines leaves is_equal,
\* line_number, total_lines and the table reference as they were, whatever
\* line is supplied.
C8_ExtraLinesAreNoOps ==
    [][(Len(supplied') = Len(supplied) + 1 /\ line_number >= total_lines)
          => /\ is_equal' = is_equal
             /\ line_number' = line_number
             /\ total_lines' = total_lines
             /\ pgm_entry_table' = pgm_entry_table]_vars

\* a fourth line that matches no reference line was supplied after three
\* matching ones, and the verdict is still true
C8_Witness ==
    /\ Len(supplied) = 4
    /\ line_number = 3
    /\ supplied[4] = <<67, 67>>
    /\ is_equal

\* C9: initialize() calls the transport in this order: reset, echo(false),
\* AT+GATTCLEAR, AT+GAPDEVNAME, the declarations, AT+GAPSETADVDATA, reset; no
\* declaration comes before AT+GATTCLEAR or after AT+GAPSETADVDATA.
IsDeclaration(c) == c.op = "addService" \/ c.op = "addCharacteristic"

PositionOf(op, name) ==
    CHOOSE i \in 1..Len(ble_log) :
        ble_log[i].op = op /\ ble_log[i].name = name

C9_BringUpOrder ==
    phase = "ready" =>
        /\ Len(ble_log) >= 6
        /\ ble_log[1].op = "reset"
        /\ ble_log[2].op = "echo" /\ ble_log[2].name = "false"
        /\ ble_log[3].op = "atcommand" /\ ble_log[3].name = "AT+GATTCLEAR"
        /\ ble_log[4].op = "sendCommandCheckOK"
        /\ ble_log[4].name = "AT+GAPDEVNAME=PeloMon"
        /\ CountOps("sendCommandCheckOK", "AT+GAPSETADVDATA") = 1
        /\ LET adv == PositionOf("sendCommandCheckOK", "AT+GAPSETADVDATA")
           IN  /\ adv < Len(ble_log)
               /\ ble_log[adv + 1].op = "reset"
               /\ \A i \in 1..Len(ble_log) :
                     IsDeclaration(ble_log[i]) <=> (4 < i /\ i < adv)

C9_Witness ==
    /\ phase = "ready"
    /\ Len(ble_log) = 20
    /\ ble_log[14].name = "AT+GAPSETADVDATA"
    /\ ble_log[15].op = "reset"

\* C10: the declarations are issued in one fixed order whatever each of them
\* returns: Power service, Power Feature, Power Measurement, Power Sensor
\* Location, Speed/Cadence service, CSC Feature, CSC Measurement, CSC Sensor
\* Location, SC Control Point.
DeclarationOrder ==
    << <<"addService", "CYCLING_POWER_SERVICE_UUID">>,
       <<"addCharacteristic", "CYCLING_POWER_FEATURE_CHAR_UUID">>,
       <<"addCharacteristic", "CYCLING_POWER_MEASUREMENT_CHAR_UUID">>,
       <<"addCharacteristic", "SENSOR_LOCATION_CHAR_UUID">>,
       <<"addService", "CYCLING_SPEED_CADENCE_SERVICE_UUID">>,
       <<"addCharacteristic", "CSC_FEATURE_CHAR_UUID">>,
       <<"addCharacteristic", "CSC_MEASUREMENT_CHAR_UUID">>,
       <<"addCharacteristic", "SENSOR_LOCATION_CHAR_UUID">>,
       <<"addCharacteristic", "SC_CONTROL_POINT_CHAR_UUID">> >>

C10_DeclarationOrderIsFixed ==
    phase = "ready" =>
        /\ Len(Declarations) = Len(DeclarationOrder)
        /\ \A i \in 1..Len(Declarations) :
              /\ Declarations[i].op = DeclarationOrder[i][1]
              /\ Declarations[i].name = DeclarationOrder[i][2]

\* both services and one characteristic of each profile were refused
C10_Witness ==
    /\ phase = "ready"
    /\ FailedDeclarations = {1, 3, 5, 9}
    /\ Declarations[4].name = "SENSOR_LOCATION_CHAR_UUID"
    /\ Declarations[5].op = "addService"

\* C11: after the declarations and the second reset, initialize() writes
\* every static initial value exactly once: SENSOR_LOCATION_LEFT_CRANK to
\* both sensor-location characteristics, the Power Feature mask
\* (crank | wheel | accumulated energy, 4 bytes), the Speed/Cadence Feature
\* mask (crank | wheel, 2 bytes) and one zero byte to the Control Point; each
\* write goes to the handle retained for its characteristic, also when that
\* handle is the invalid 0.
InitialValues ==
    << [name |-> "cp_sensor_location", handle |-> cp_sensor_location_id,
        value |-> {"SENSOR_LOCATION_LEFT_CRANK"}, len |-> 1],
       [name |-> "csc_sensor_location", handle |-> csc_sensor_location_id,
        value |-> {"SENSOR_LOCATION_LEFT_CRANK"}, len |-> 1],
       [name |-> "cp_feature", handle |-> cp_feature_id,
        value |-> {"CPF_CRANK_REVOLUTION_DATA_SUPPORTED",
                   "CPF_WHEEL_REVOLUTION_DATA_SUPPORTED",
                   "CPF_ACCUMULATED_ENERGY_SUPPORTED"}, len |-> 4],
       [name |-> "csc_feature", handle |-> csc_feature_id,
        value |-> {"CSCF_CRANK_REVOLUTION_DATA_SUPPORTED",
                   "CSCF_WHEEL_REVOLUTION_DATA_SUPPORTED"}, len |-> 2],
       [name |-> "sc_control_point", handle |-> sc_control_point_id,
        value |-> {}, len |-> 1] >>

StaticWrites == {i \in 1..Len(ble_log) : ble_log[i].op = "setChar"}

LastOf(op) ==
    CHOOSE i \in 1..Len(ble_log) :
        /\ ble_log[i].op = op
        /\ \A j \in (i + 1)..Len(ble_log) : ble_log[j].op # op

C11_InitialValuesWrittenOnce ==
    phase = "ready" =>
        /\ Cardinality(StaticWrites) = Len(InitialValues)
        /\ \A k \in 1..Len(InitialValues) :
              \E i \in StaticWrites :
                  /\ ble_log[i].name = InitialValues[k].name
                  /\ ble_log[i].handle = InitialValues[k].handle
                  /\ ble_log[i].value = InitialValues[k].value
                  /\ ble_log[i].len = InitialValues[k].len
        /\ \A i \in StaticWrites :
              /\ i > LastOf("reset")
              /\ i > LastOf("addCharacteristic")
              /\ i > LastOf("addService")

\* the Control Point and the Power Feature declarations were refused, and
\* their initial values were written to handle 0 all the same
C11_Witness ==
    /\ phase = "ready"
    /\ sc_control_point_id = 0
    /\ cp_feature_id = 0
    /\ \E i \in StaticWrites :
          ble_log[i].name = "sc_control_point" /\ ble_log[i].handle = 0
    /\ \E i \in StaticWrites :
          ble_log[i].name = "cp_feature" /\ ble_log[i].handle = 0

\* C12: once bring-up has finished, no call of update(),
\* handle_sc_control_point() or serial_status_text() changes any of the nine
\* retained handles, whatever its inputs and whatever the transport answers;
\* and update() keeps nothing between cycles: a cycle that gets the snapshot
\* of the cycle before hands the transport the same payloads.
Payloads(writes) == [i \in 1..Len(writes) |-> <<writes[i].name, writes[i].data>>]

C12_HandlesFrozenEncoderStateless ==
    [][/\ phase = "ready" => RetainedHandles' = RetainedHandles
       /\ (updated /\ updated' /\ snapshot' = snapshot)
             => Payloads(gatt_writes') = Payloads(gatt_writes)]_vars

\* after a cycle whose two writes failed, the handles are still the ones the
\* declarations returned at bring-up
C12_Witness ==
    /\ phase = "ready"
    /\ updated
    /\ Len(gatt_writes) = 2
    /\ ~gatt_writes[1].ok
    /\ ~gatt_writes[2].ok
    /\ Len(Declarations) = NumDeclarations
    /\ \A i \in 1..NumDeclarations :
          RetainedHandles[i] = Declarations[i].handle
    /\ cp_measurement_id = 3
    /\ csc_measurement_id = 7

\* C13: every call made with line_number < total_lines advances line_number
\* by exactly one, whether or not the line matched and whether or not
\* is_equal was already false; and is_equal, once false, stays false for the
\* rest of the session.
C13_IndexAdvancesVerdictSticks ==
    [][/\ (Len(supplied') = Len(supplied) + 1 /\ line_number < total_lines)
             => line_number' = line_number + 1
       /\ ~is_equal => ~is_equal']_vars

\* the first line did not match, the two that followed did: the index is 3
\* and the verdict is false
C13_Witness ==
    /\ Len(supplied) = 3
    /\ supplied[1] = <<65, 65, 66>>
    /\ supplied[2] = ReferenceTable[2]
    /\ supplied[3] = ReferenceTable[3]
    /\ line_number = 3
    /\ ~is_equal

\* C14: in every update() cycle the write offset base never exceeds the 11
\* bytes of the working buffer, the length handed over for the Power
\* measurement is 6 and lies within the bounds [4, 8] declared for that
\* characteristic, and the length handed over for the Speed/Cadence
\* measurement is 11, the fixed length declared for it.
DeclaredBounds(uuid) ==
    LET i == CHOOSE k \in 1..Len(Declarations) : Declarations[k].name = uuid
    IN  <<Declarations[i].min_len, Declarations[i].max_len>>

C14_OffsetsAndLengthsInBounds ==
    updated =>
        /\ Len(base_trace) >= 10
        /\ \A i \in 1..Len(base_trace) :
              0 <= base_trace[i] /\ base_trace[i] <= BufferSize
        /\ Len(CpWrites) = 1
        /\ CpWrites[1].len = 6
        /\ DeclaredBounds("CYCLING_POWER_MEASUREMENT_CHAR_UUID") = <<4, 8>>
        /\ DeclaredBounds("CYCLING_POWER_MEASUREMENT_CHAR_UUID")[1]
              <= CpWrites[1].len
        /\ CpWrites[1].len
              <= DeclaredBounds("CYCLING_POWER_MEASUREMENT_CHAR_UUID")[2]
        /\ Len(CscWrites) = 1
        /\ CscWrites[1].len = 11
        /\ DeclaredBounds("CSC_MEASUREMENT_CHAR_UUID")
              = <<CscWrites[1].len, CscWrites[1].len>>

\* a cycle with the largest value of every argument: the offsets are
\* 0, 2, 4, 6 for the Power payload and 0, 1, 5, 7, 9, 11 for Speed/Cadence
C14_Witness ==
    /\ updated
    /\ snapshot.power_watts = 65535
    /\ snapshot.wheel_revs = U32(65535, 65535)
    /\ base_trace = <<0, 2, 4, 6, 0, 1, 5, 7, 9, 11>>
    /\ Len(gatt_writes) = 2
    /\ gatt_writes[1].len = 6
    /\ gatt_writes[2].len = 11

\* C15: in a session that starts with line_number <= total_lines,
\* line_number <= total_lines holds in every state; line_number never
\* decreases (the 8-bit index does not wrap to 0); a call that compares reads
\* the table at an index below total_lines; total_lines and the table
\* reference are never modified.
C15_IndexNeverPassesCount ==
    /\ [](line_number <= total_lines)
    /\ [][/\ line_number' >= line_number
          /\ line_number' # line_number
                => /\ line_number < total_lines
                   /\ line_number + 1 <= Len(pgm_entry_table)
          /\ total_lines' = total_lines
          /\ pgm_entry_table' = pgm_entry_table]_vars

\* four calls on the 255-line table have left the index at 255
C15_Witness ==
    /\ total_lines = U8 - 1
    /\ Len(pgm_entry_table) = U8 - 1
    /\ line_number = total_lines
    /\ Len(supplied) = 4

====
